---- MODULE Spec2Model ----
(***************************************************************************)
(* EnformionGO API wrapper: a credential-injecting HTTP proxy.             *)
(*                                                                         *)
(* Each inbound POST is handled by one endpoint function of main.py.  The  *)
(* endpoint optionally runs a validation dependency, serialises the body   *)
(* and awaits call_enformion_api, which resolves the credentials, builds   *)
(* the outbound header set, issues one POST through httpx and classifies   *)
(* the outcome.  The only suspension point of a request is the outbound    *)
(* POST.                                                                   *)
(*                                                                         *)
(* Python values are modelled as tagged records so that truthiness         *)
(* (None, "" and [] are false) is computed as Python computes it.          *)
(***************************************************************************)
EXTENDS Integers, Sequences, FiniteSets, TLC

VARIABLES
    settings,   \* the configuration singleton (config.settings)
    inbound,    \* inbound[r]: the HTTP request the caller of r sends
    pc,         \* pc[r]: "idle" | "received" | "awaiting" | "done"
    posts,      \* posts[r]: the outbound POSTs issued on behalf of r, in order
    response,   \* response[r]: what client.post produced for r, if anything yet
    result,     \* result[r]: what the endpoint returned or raised
    log         \* records written through logger (process-wide)

vars == <<settings, inbound, pc, posts, response, result, log>>

Requests == {"r1", "r2"}

-----------------------------------------------------------------------------
(* Python values *)

None == [t |-> "None", v |-> ""]
Str(s) == [t |-> "str", v |-> s]
List(q) == [t |-> "list", v |-> q]
SecretStr(s) == [t |-> "SecretStr", v |-> s]

\* bool(x): None is false, a str / list / SecretStr is false when empty.
Truthy(x) ==
    CASE x.t = "None" -> FALSE
      [] x.t = "str" -> x.v # ""
      [] x.t = "SecretStr" -> x.v # ""
      [] x.t = "list" -> x.v # <<>>

\* a or b
Or(a, b) == IF Truthy(a) THEN a ELSE b

get_secret_value(x) == Str(x.v)

\* what a function evaluates to: a raised exception, a returned value, or
\* (for call_enformion_api) the outbound POST at which it suspends
Raise(exc) == [op |-> "raise", exc |-> exc]
Return(value) == [op |-> "return", value |-> value]
Post(call) == [op |-> "post", call |-> call]

HTTPException(status_code, detail) ==
    [kind |-> "HTTPException", status_code |-> status_code, detail |-> detail]
APIConnectionError(message) == [kind |-> "APIConnectionError", message |-> message]
InvalidRequestError(message) == [kind |-> "InvalidRequestError", message |-> message]

Range(q) == {q[i] : i \in DOMAIN q}

-----------------------------------------------------------------------------
(* Configuration *)

Settings(name, password) ==
    [GALAXY_AP_NAME |-> name,
     GALAXY_AP_PASSWORD |-> password,
     PERSON_SEARCH_API_URL |-> "https://devapi.enformion.com/PersonSearch",
     REVERSE_PHONE_API_URL |-> "https://devapi.enformion.com/ReversePhoneSearch",
     CONTACT_ENRICHMENT_API_URL |-> "https://devapi.enformion.com/Contact/Enrich",
     CALLER_ID_API_URL |-> "https://devapi.enformion.com/Phone/Enrich",
     EMAIL_ID_API_URL |-> "https://devapi.enformion.com/Email/Enrich",
     CONTACT_ID_API_URL |-> "https://devapi.enformion.com/Contact/Id",
     ADDRESS_ID_API_URL |-> "https://devapi.enformion.com/Address/Id",
     ADDRESS_AUTOCOMPLETE_API_URL |-> "https://devapi.enformion.com/Address/AutoComplete",
     ID_VERIFICATION_API_URL |-> "https://devapi.enformion.com/Identity/Verify_Id",
     CENSUS_SEARCH_API_URL |-> "https://devapi.enformion.com/CensusSearch",
     DIVORCE_SEARCH_API_URL |-> "https://devapi.enformion.com/DivorceSearch",
     LINKEDIN_ID_API_URL |-> "https://devapi.enformion.com/LinkedIn/Id",
     PROPERTY_SEARCH_V2_API_URL |-> "https://devapi.enformion.com/PropertyV2Search",
     BUSINESS_SEARCH_V2_API_URL |-> "https://devapi.enformion.com/BusinessV2Search",
     DOMAIN_SEARCH_API_URL |-> "https://devapi.enformion.com/DomainSearch",
     WORKPLACE_SEARCH_API_URL |-> "https://devapi.enformion.com/WorkplaceSearch",
     BUSINESS_ID_API_URL |-> "https://devapi.enformion.com/Business/Id",
     CONTACT_ENRICHMENT_PLUS_API_URL |-> "https://devapi.enformion.com/Contact/EnrichPlus",
     CONTACT_ID_PLUS_API_URL |-> "https://devapi.enformion.com/Contact/IdPlus",
     CALLER_ID_PLUS_API_URL |-> "https://devapi.enformion.com/Phone/EnrichPlus",
     EMAIL_ID_PLUS_API_URL |-> "https://devapi.enformion.com/Email/EnrichPlus",
     ADDRESS_ID_PLUS_API_URL |-> "https://devapi.enformion.com/Address/IdPlus",
     CRIMINAL_SEARCH_V2_API_URL |-> "https://devapi.enformion.com/CriminalSearch/V2",
     DEBT_SEARCH_V2_API_URL |-> "https://devapi.enformion.com/DebtSearch/V2",
     EVICTION_SEARCH_API_URL |-> "https://devapi.enformion.com/EvictionSearch",
     MARRIAGE_SEARCH_API_URL |-> "https://devapi.enformion.com/MarriageSearch",
     OFAC_SEARCH_API_URL |-> "https://devapi.enformion.com/OfacSearch",
     PRE_FORECLOSURE_SEARCH_V2_API_URL |-> "https://devapi.enformion.com/ForeclosureV2Search",
     PRO_LICENSE_SEARCH_API_URL |-> "https://devapi.enformion.com/ProLicenseSearch",
     VEHICLE_OWNERSHIP_SEARCH_API_URL |-> "https://devapi.enformion.com/VehicleRegistrationSearch",
     ELEADVERIFY_API_URL |-> "https://devapi.enformion.com/eIDV/eLeadVerify",
     DATA_ALERTS_ADD_SUBSCRIPTION_API_URL |-> "https://devapi.enformion.com/DataAlerts/AddSubscription",
     DATA_ALERTS_REMOVE_SUBSCRIPTION_API_URL |-> "https://devapi.enformion.com/DataAlerts/RemoveSubscription",
     DATA_ALERTS_GET_SUBSCRIPTION_API_URL |-> "https://devapi.enformion.com/DataAlerts/GetSubscription",
     DATA_ALERTS_COUNT_ALERT_API_URL |-> "https://devapi.enformion.com/DataAlerts/CountAlert",
     DATA_ALERTS_GET_ALERT_API_URL |-> "https://devapi.enformion.com/DataAlerts/GetAlert"]
get_settings == settings

-----------------------------------------------------------------------------
(* Validation dependencies *)

\* variant: every populated name part counts as a criterion of its own
validate_contact_enrichment_request_per_name_part(request) ==
    LET n1 == IF Truthy(request.first_name) THEN 1 ELSE 0
        n2 == IF Truthy(request.middle_name) THEN n1 + 1 ELSE n1
        c1 == IF Truthy(request.last_name) THEN n2 + 1 ELSE n2
        c2 == IF Truthy(request.phone) THEN c1 + 1 ELSE c1
        c3 == IF Truthy(request.address) THEN c2 + 1 ELSE c2
        criteria_count == IF Truthy(request.email) THEN c3 + 1 ELSE c3
    IN  IF criteria_count < 2
        THEN Raise(HTTPException(400,
                 <<"Contact Enrichment requires at least two search criteria from: Name, Phone, Address, or Email.">>))
        ELSE Return(request)

validate_contact_enrichment_request(request) ==
    LET c1 == IF Truthy(request.first_name) \/ Truthy(request.middle_name)
                 \/ Truthy(request.last_name) THEN 1 ELSE 0
        c2 == IF Truthy(request.phone) THEN c1 + 1 ELSE c1
        c3 == IF Truthy(request.address) THEN c2 + 1 ELSE c2
        criteria_count == IF Truthy(request.email) THEN c3 + 1 ELSE c3
    IN  IF criteria_count < 2
        THEN Raise(HTTPException(400,
                 <<"Contact Enrichment requires at least two search criteria from: Name, Phone, Address, or Email.">>))
        ELSE Return(request)

\* variant: each populated address line counts as a criterion of its own
validate_id_verification_request_per_address_line(request) ==
    LET c1 == IF Truthy(request.first_name) \/ Truthy(request.middle_name)
                 \/ Truthy(request.last_name) THEN 1 ELSE 0
        c2 == IF Truthy(request.phones) THEN c1 + 1 ELSE c1
        a1 == IF Truthy(request.address_line_1) THEN c2 + 1 ELSE c2
        c3 == IF Truthy(request.address_line_2) THEN a1 + 1 ELSE a1
        c4 == IF Truthy(request.emails) THEN c3 + 1 ELSE c3
        criteria_count == IF Truthy(request.ssn) THEN c4 + 1 ELSE c4
    IN  IF criteria_count < 2
        THEN Raise(HTTPException(400,
                 <<"ID Verification requires at least two criteria from: SSN, Name, Phone, Address, or Email.">>))
        ELSE Return(request)

validate_id_verification_request(request) ==
    LET c1 == IF Truthy(request.first_name) \/ Truthy(request.middle_name)
                 \/ Truthy(request.last_name) THEN 1 ELSE 0
        c2 == IF Truthy(request.phones) THEN c1 + 1 ELSE c1
        c3 == IF Truthy(request.address_line_1) \/ Truthy(request.address_line_2)
              THEN c2 + 1 ELSE c2
        c4 == IF Truthy(request.emails) THEN c3 + 1 ELSE c3
        criteria_count == IF Truthy(request.ssn) THEN c4 + 1 ELSE c4
    IN  IF criteria_count < 2
        THEN Raise(HTTPException(400,
                 <<"ID Verification requires at least two criteria from: SSN, Name, Phone, Address, or Email.">>))
        ELSE Return(request)

-----------------------------------------------------------------------------
(* call_enformion_api, up to its suspension at the outbound POST *)

\* variant: the configured default wins over the header
ap_name_default_first(galaxy_ap_name, s) == Or(s.GALAXY_AP_NAME, galaxy_ap_name)

\* line 107
ap_name(galaxy_ap_name, s) == Or(galaxy_ap_name, s.GALAXY_AP_NAME)

\* variant: a header that is present, even empty, is used as the secret
ap_password_if_not_None(galaxy_ap_password, s) ==
    IF galaxy_ap_password # None THEN galaxy_ap_password
    ELSE IF Truthy(s.GALAXY_AP_PASSWORD) THEN get_secret_value(s.GALAXY_AP_PASSWORD)
    ELSE None

\* lines 108-110
ap_password(galaxy_ap_password, s) ==
    Or(galaxy_ap_password,
       IF Truthy(s.GALAXY_AP_PASSWORD) THEN get_secret_value(s.GALAXY_AP_PASSWORD)
       ELSE None)

\* variant: fail only when both values are missing
credentials_missing_both(name, password) == ~Truthy(name) /\ ~Truthy(password)

\* variant: only the account name is checked
credentials_missing_name_only(name, password) == ~Truthy(name)

\* line 112
credentials_missing(name, password) == ~Truthy(name) \/ ~Truthy(password)

\* variant: the optional headers are added whenever they are not None
headers_if_not_None(name, password, search_type, galaxy_client_session_id, galaxy_client_type) ==
    LET keys == {"galaxy-ap-name", "galaxy-ap-password", "galaxy-search-type", "Content-Type"}
                \cup (IF galaxy_client_session_id # None
                      THEN {"galaxy-client-session-id"} ELSE {})
                \cup (IF galaxy_client_type # None
                      THEN {"galaxy-client-type"} ELSE {})
    IN  [k \in keys |->
            CASE k = "galaxy-ap-name" -> name
              [] k = "galaxy-ap-password" -> password
              [] k = "galaxy-search-type" -> search_type
              [] k = "Content-Type" -> Str("application/json")
              [] k = "galaxy-client-session-id" -> galaxy_client_session_id
              [] k = "galaxy-client-type" -> galaxy_client_type]

\* lines 118-128: a dict, i.e. a function whose domain is the set of keys
headers(name, password, search_type, galaxy_client_session_id, galaxy_client_type) ==
    LET keys == {"galaxy-ap-name", "galaxy-ap-password", "galaxy-search-type", "Content-Type"}
                \cup (IF Truthy(galaxy_client_session_id)
                      THEN {"galaxy-client-session-id"} ELSE {})
                \cup (IF Truthy(galaxy_client_type)
                      THEN {"galaxy-client-type"} ELSE {})
    IN  [k \in keys |->
            CASE k = "galaxy-ap-name" -> name
              [] k = "galaxy-ap-password" -> password
              [] k = "galaxy-search-type" -> search_type
              [] k = "Content-Type" -> Str("application/json")
              [] k = "galaxy-client-session-id" -> galaxy_client_session_id
              [] k = "galaxy-client-type" -> galaxy_client_type]

call_enformion_api(api_url, search_type, request_body, s, galaxy_ap_name, galaxy_ap_password, galaxy_client_session_id, galaxy_client_type) ==
    LET name == ap_name(galaxy_ap_name, s)
        password == ap_password(galaxy_ap_password, s)
    IN  IF credentials_missing(name, password)
        THEN Raise(APIConnectionError(
                 <<"API credentials are not configured. Provide (GALAXY_AP_NAME, GALAXY_AP_PASSWORD) via env/.env, or pass them as request headers (galaxy-ap-name, galaxy-ap-password).">>))
        ELSE Post([url |-> api_url,
                   json |-> request_body,
                   headers |-> headers(name, password, search_type,
                                       galaxy_client_session_id, galaxy_client_type)])

-----------------------------------------------------------------------------
(* Endpoints *)

\* variant: nothing is excluded from the dump
model_dump_all(search_request) == [f \in DOMAIN search_request |-> search_request[f]]

\* variant: the list-valued fields are left out as well
model_dump_scalars_only(search_request) ==
    [f \in {g \in DOMAIN search_request : search_request[g].t \notin {"None", "list"}}
        |-> search_request[f]]

\* search_request.model_dump(by_alias=True, exclude_none=True): the fields
\* whose value is None are left out of the dict
model_dump(search_request) ==
    [f \in {g \in DOMAIN search_request : search_request[g].t # "None"}
        |-> search_request[f]]

\* variant: the endpoint forwards without the validation dependency
contact_enrichment_unvalidated(req, s) ==
    call_enformion_api(s.CONTACT_ENRICHMENT_API_URL,
        Or(req.headers.galaxy_search_type, Str("DevAPIContactEnrich")),
        model_dump(req.body), s,
        req.headers.galaxy_ap_name, req.headers.galaxy_ap_password,
        req.headers.galaxy_client_session_id, req.headers.galaxy_client_type)

contact_enrichment(req, s) ==
    LET search_request == validate_contact_enrichment_request(req.body)
    IN  IF search_request.op = "raise" THEN search_request
        ELSE call_enformion_api(s.CONTACT_ENRICHMENT_API_URL,
                 Or(req.headers.galaxy_search_type, Str("DevAPIContactEnrich")),
                 model_dump(search_request.value), s,
                 req.headers.galaxy_ap_name, req.headers.galaxy_ap_password,
                 req.headers.galaxy_client_session_id, req.headers.galaxy_client_type)

\* variant: the credentials are resolved before the body is validated
id_verification_credentials_first(req, s) ==
    LET out == call_enformion_api(s.ID_VERIFICATION_API_URL,
                   Or(req.headers.galaxy_search_type, Str("DevAPIIDVerification")),
                   model_dump(req.body), s,
                   req.headers.galaxy_ap_name, req.headers.galaxy_ap_password,
                   req.headers.galaxy_client_session_id, req.headers.galaxy_client_type)
        search_request == validate_id_verification_request(req.body)
    IN  IF out.op = "raise" THEN out
        ELSE IF search_request.op = "raise" THEN search_request
        ELSE out

id_verification(req, s) ==
    LET search_request == validate_id_verification_request(req.body)
    IN  IF search_request.op = "raise" THEN search_request
        ELSE call_enformion_api(s.ID_VERIFICATION_API_URL,
                 Or(req.headers.galaxy_search_type, Str("DevAPIIDVerification")),
                 model_dump(search_request.value), s,
                 req.headers.galaxy_ap_name, req.headers.galaxy_ap_password,
                 req.headers.galaxy_client_session_id, req.headers.galaxy_client_type)

\* class PersonSearchType(str, Enum)
PersonSearchType == {"Person", "Teaser"}

\* The galaxy-search-type header of /person-search is declared with the enum
\* type and the default PersonSearchType.person: a value outside the enum is
\* refused by the framework before the endpoint body runs.
person_search(req, s) ==
    LET h == req.headers.galaxy_search_type
        galaxy_search_type == IF h.t = "None" THEN Str("Person") ELSE h
    IN  IF galaxy_search_type.v \notin PersonSearchType
        THEN Raise([kind |-> "RequestValidationError", status_code |-> 422])
        ELSE call_enformion_api(s.PERSON_SEARCH_API_URL, galaxy_search_type,
                 model_dump(req.body), s,
                 req.headers.galaxy_ap_name, req.headers.galaxy_ap_password,
                 req.headers.galaxy_client_session_id, req.headers.galaxy_client_type)

\* variant: the endpoint always sends its own search type
caller_id_default_only(req, s) ==
    call_enformion_api(s.CALLER_ID_API_URL, Str("DevAPICallerID"),
        model_dump(req.body), s, req.headers.galaxy_ap_name, req.headers.galaxy_ap_password,
        req.headers.galaxy_client_session_id, req.headers.galaxy_client_type)

caller_id(req, s) ==
    call_enformion_api(s.CALLER_ID_API_URL, Or(req.headers.galaxy_search_type, Str("DevAPICallerID")),
        model_dump(req.body), s, req.headers.galaxy_ap_name, req.headers.galaxy_ap_password,
        req.headers.galaxy_client_session_id, req.headers.galaxy_client_type)

\* variant: the endpoint forwards to the destination of /caller-id
email_id_wrong_url(req, s) ==
    call_enformion_api(s.CALLER_ID_API_URL, Or(req.headers.galaxy_search_type, Str("DevAPIEmailID")),
        model_dump(req.body), s, req.headers.galaxy_ap_name, req.headers.galaxy_ap_password,
        req.headers.galaxy_client_session_id, req.headers.galaxy_client_type)

email_id(req, s) ==
    call_enformion_api(s.EMAIL_ID_API_URL, Or(req.headers.galaxy_search_type, Str("DevAPIEmailID")),
        model_dump(req.body), s, req.headers.galaxy_ap_name, req.headers.galaxy_ap_password,
        req.headers.galaxy_client_session_id, req.headers.galaxy_client_type)

contact_id(req, s) ==
    call_enformion_api(s.CONTACT_ID_API_URL, Or(req.headers.galaxy_search_type, Str("DevAPIContactID")),
        model_dump(req.body), s, req.headers.galaxy_ap_name, req.headers.galaxy_ap_password,
        req.headers.galaxy_client_session_id, req.headers.galaxy_client_type)

address_id(req, s) ==
    call_enformion_api(s.ADDRESS_ID_API_URL, Or(req.headers.galaxy_search_type, Str("DevAPIAddressID")),
        model_dump(req.body), s, req.headers.galaxy_ap_name, req.headers.galaxy_ap_password,
        req.headers.galaxy_client_session_id, req.headers.galaxy_client_type)

address_autocomplete(req, s) ==
    call_enformion_api(s.ADDRESS_AUTOCOMPLETE_API_URL, Or(req.headers.galaxy_search_type, Str("AddressSearch")),
        model_dump(req.body), s, req.headers.galaxy_ap_name, req.headers.galaxy_ap_password,
        req.headers.galaxy_client_session_id, req.headers.galaxy_client_type)

reverse_phone_search(req, s) ==
    call_enformion_api(s.REVERSE_PHONE_API_URL, Or(req.headers.galaxy_search_type, Str("ReversePhoneSearch")),
        model_dump(req.body), s, req.headers.galaxy_ap_name, req.headers.galaxy_ap_password,
        req.headers.galaxy_client_session_id, req.headers.galaxy_client_type)

census_search(req, s) ==
    call_enformion_api(s.CENSUS_SEARCH_API_URL, Or(req.headers.galaxy_search_type, Str("Census")),
        model_dump(req.body), s, req.headers.galaxy_ap_name, req.headers.galaxy_ap_password,
        req.headers.galaxy_client_session_id, req.headers.galaxy_client_type)

divorce_search(req, s) ==
    call_enformion_api(s.DIVORCE_SEARCH_API_URL, Or(req.headers.galaxy_search_type, Str("Divorce")),
        model_dump(req.body), s, req.headers.galaxy_ap_name, req.headers.galaxy_ap_password,
        req.headers.galaxy_client_session_id, req.headers.galaxy_client_type)

linkedin_id(req, s) ==
    call_enformion_api(s.LINKEDIN_ID_API_URL, Or(req.headers.galaxy_search_type, Str("LinkedInID")),
        model_dump(req.body), s, req.headers.galaxy_ap_name, req.headers.galaxy_ap_password,
        req.headers.galaxy_client_session_id, req.headers.galaxy_client_type)

property_search_v2(req, s) ==
    call_enformion_api(s.PROPERTY_SEARCH_V2_API_URL, Or(req.headers.galaxy_search_type, Str("PropertyV2Search")),
        model_dump(req.body), s, req.headers.galaxy_ap_name, req.headers.galaxy_ap_password,
        req.headers.galaxy_client_session_id, req.headers.galaxy_client_type)

business_search(req, s) ==
    call_enformion_api(s.BUSINESS_SEARCH_V2_API_URL, Or(req.headers.galaxy_search_type, Str("BusinessV2Search")),
        model_dump(req.body), s, req.headers.galaxy_ap_name, req.headers.galaxy_ap_password,
        req.headers.galaxy_client_session_id, req.headers.galaxy_client_type)

business_search_v2(req, s) ==
    call_enformion_api(s.BUSINESS_SEARCH_V2_API_URL, Or(req.headers.galaxy_search_type, Str("BusinessV2Search")),
        model_dump(req.body), s, req.headers.galaxy_ap_name, req.headers.galaxy_ap_password,
        req.headers.galaxy_client_session_id, req.headers.galaxy_client_type)

domain_search(req, s) ==
    call_enformion_api(s.DOMAIN_SEARCH_API_URL, Or(req.headers.galaxy_search_type, Str("DomainSearch")),
        model_dump(req.body), s, req.headers.galaxy_ap_name, req.headers.galaxy_ap_password,
        req.headers.galaxy_client_session_id, req.headers.galaxy_client_type)

workplace_search(req, s) ==
    call_enformion_api(s.WORKPLACE_SEARCH_API_URL, Or(req.headers.galaxy_search_type, Str("WorkplaceSearch")),
        model_dump(req.body), s, req.headers.galaxy_ap_name, req.headers.galaxy_ap_password,
        req.headers.galaxy_client_session_id, req.headers.galaxy_client_type)

business_id(req, s) ==
    call_enformion_api(s.BUSINESS_ID_API_URL, Or(req.headers.galaxy_search_type, Str("BusinessID")),
        model_dump(req.body), s, req.headers.galaxy_ap_name, req.headers.galaxy_ap_password,
        req.headers.galaxy_client_session_id, req.headers.galaxy_client_type)

\* variant: the payload must hold two non-empty fields, as on /contact-enrichment
contact_enrichment_plus_validated(req, s) ==
    IF Cardinality({f \in DOMAIN req.body : Truthy(req.body[f])}) < 2
    THEN Raise(HTTPException(400, <<"Contact Enrichment requires at least two search criteria.">>))
    ELSE call_enformion_api(s.CONTACT_ENRICHMENT_PLUS_API_URL, Or(req.headers.galaxy_search_type, Str("ContactEnrichPlus")),
             req.body, s, req.headers.galaxy_ap_name, req.headers.galaxy_ap_password,
             req.headers.galaxy_client_session_id, req.headers.galaxy_client_type)

\* variant: the payload is stripped of its None fields like a request model
contact_enrichment_plus_stripped(req, s) ==
    call_enformion_api(s.CONTACT_ENRICHMENT_PLUS_API_URL, Or(req.headers.galaxy_search_type, Str("ContactEnrichPlus")),
        model_dump(req.body), s, req.headers.galaxy_ap_name, req.headers.galaxy_ap_password,
        req.headers.galaxy_client_session_id, req.headers.galaxy_client_type)

contact_enrichment_plus(req, s) ==
    call_enformion_api(s.CONTACT_ENRICHMENT_PLUS_API_URL, Or(req.headers.galaxy_search_type, Str("ContactEnrichPlus")),
        req.body, s, req.headers.galaxy_ap_name, req.headers.galaxy_ap_password,
        req.headers.galaxy_client_session_id, req.headers.galaxy_client_type)

contact_id_plus(req, s) ==
    call_enformion_api(s.CONTACT_ID_PLUS_API_URL, Or(req.headers.galaxy_search_type, Str("ContactIdPlus")),
        req.body, s, req.headers.galaxy_ap_name, req.headers.galaxy_ap_password,
        req.headers.galaxy_client_session_id, req.headers.galaxy_client_type)

caller_id_plus(req, s) ==
    call_enformion_api(s.CALLER_ID_PLUS_API_URL, Or(req.headers.galaxy_search_type, Str("PhoneEnrichPlus")),
        req.body, s, req.headers.galaxy_ap_name, req.headers.galaxy_ap_password,
        req.headers.galaxy_client_session_id, req.headers.galaxy_client_type)

email_id_plus(req, s) ==
    call_enformion_api(s.EMAIL_ID_PLUS_API_URL, Or(req.headers.galaxy_search_type, Str("EmailEnrichPlus")),
        req.body, s, req.headers.galaxy_ap_name, req.headers.galaxy_ap_password,
        req.headers.galaxy_client_session_id, req.headers.galaxy_client_type)

address_id_plus(req, s) ==
    call_enformion_api(s.ADDRESS_ID_PLUS_API_URL, Or(req.headers.galaxy_search_type, Str("AddressIdPlus")),
        req.body, s, req.headers.galaxy_ap_name, req.headers.galaxy_ap_password,
        req.headers.galaxy_client_session_id, req.headers.galaxy_client_type)

criminal_search_v2(req, s) ==
    call_enformion_api(s.CRIMINAL_SEARCH_V2_API_URL, Or(req.headers.galaxy_search_type, Str("CriminalSearchV2")),
        req.body, s, req.headers.galaxy_ap_name, req.headers.galaxy_ap_password,
        req.headers.galaxy_client_session_id, req.headers.galaxy_client_type)

debt_v2(req, s) ==
    call_enformion_api(s.DEBT_SEARCH_V2_API_URL, Or(req.headers.galaxy_search_type, Str("DebtSearchV2")),
        req.body, s, req.headers.galaxy_ap_name, req.headers.galaxy_ap_password,
        req.headers.galaxy_client_session_id, req.headers.galaxy_client_type)

eviction_search(req, s) ==
    call_enformion_api(s.EVICTION_SEARCH_API_URL, Or(req.headers.galaxy_search_type, Str("EvictionSearch")),
        req.body, s, req.headers.galaxy_ap_name, req.headers.galaxy_ap_password,
        req.headers.galaxy_client_session_id, req.headers.galaxy_client_type)

marriage_search(req, s) ==
    call_enformion_api(s.MARRIAGE_SEARCH_API_URL, Or(req.headers.galaxy_search_type, Str("MarriageSearch")),
        req.body, s, req.headers.galaxy_ap_name, req.headers.galaxy_ap_password,
        req.headers.galaxy_client_session_id, req.headers.galaxy_client_type)

ofac_search(req, s) ==
    call_enformion_api(s.OFAC_SEARCH_API_URL, Or(req.headers.galaxy_search_type, Str("OfacSearch")),
        req.body, s, req.headers.galaxy_ap_name, req.headers.galaxy_ap_password,
        req.headers.galaxy_client_session_id, req.headers.galaxy_client_type)

pre_foreclosure_search_v2(req, s) ==
    call_enformion_api(s.PRE_FORECLOSURE_SEARCH_V2_API_URL, Or(req.headers.galaxy_search_type, Str("ForeclosureV2Search")),
        req.body, s, req.headers.galaxy_ap_name, req.headers.galaxy_ap_password,
        req.headers.galaxy_client_session_id, req.headers.galaxy_client_type)

professional_license_search(req, s) ==
    call_enformion_api(s.PRO_LICENSE_SEARCH_API_URL, Or(req.headers.galaxy_search_type, Str("ProLicense")),
        req.body, s, req.headers.galaxy_ap_name, req.headers.galaxy_ap_password,
        req.headers.galaxy_client_session_id, req.headers.galaxy_client_type)

vehicle_ownership_search(req, s) ==
    call_enformion_api(s.VEHICLE_OWNERSHIP_SEARCH_API_URL, Or(req.headers.galaxy_search_type, Str("VehicleRegistrationSearch")),
        req.body, s, req.headers.galaxy_ap_name, req.headers.galaxy_ap_password,
        req.headers.galaxy_client_session_id, req.headers.galaxy_client_type)

eleadverify(req, s) ==
    call_enformion_api(s.ELEADVERIFY_API_URL, Or(req.headers.galaxy_search_type, Str("eLeadVerify")),
        req.body, s, req.headers.galaxy_ap_name, req.headers.galaxy_ap_password,
        req.headers.galaxy_client_session_id, req.headers.galaxy_client_type)

data_alerts_add_subscription(req, s) ==
    call_enformion_api(s.DATA_ALERTS_ADD_SUBSCRIPTION_API_URL, Or(req.headers.galaxy_search_type, Str("DataAlertsAddSubscription")),
        req.body, s, req.headers.galaxy_ap_name, req.headers.galaxy_ap_password,
        req.headers.galaxy_client_session_id, req.headers.galaxy_client_type)

data_alerts_remove_subscription(req, s) ==
    call_enformion_api(s.DATA_ALERTS_REMOVE_SUBSCRIPTION_API_URL, Or(req.headers.galaxy_search_type, Str("DataAlertsRemoveSubscription")),
        req.body, s, req.headers.galaxy_ap_name, req.headers.galaxy_ap_password,
        req.headers.galaxy_client_session_id, req.headers.galaxy_client_type)

data_alerts_get_subscription(req, s) ==
    call_enformion_api(s.DATA_ALERTS_GET_SUBSCRIPTION_API_URL, Or(req.headers.galaxy_search_type, Str("DataAlertsGetSubscription")),
        req.body, s, req.headers.galaxy_ap_name, req.headers.galaxy_ap_password,
        req.headers.galaxy_client_session_id, req.headers.galaxy_client_type)

data_alerts_count_alert(req, s) ==
    call_enformion_api(s.DATA_ALERTS_COUNT_ALERT_API_URL, Or(req.headers.galaxy_search_type, Str("DataAlertsCountAlert")),
        req.body, s, req.headers.galaxy_ap_name, req.headers.galaxy_ap_password,
        req.headers.galaxy_client_session_id, req.headers.galaxy_client_type)

data_alerts_get_alert(req, s) ==
    call_enformion_api(s.DATA_ALERTS_GET_ALERT_API_URL, Or(req.headers.galaxy_search_type, Str("DataAlertsGetAlert")),
        req.body, s, req.headers.galaxy_ap_name, req.headers.galaxy_ap_password,
        req.headers.galaxy_client_session_id, req.headers.galaxy_client_type)
Route(req, s) ==
    CASE req.path = "/contact-enrichment" -> contact_enrichment(req, s)
      [] req.path = "/caller-id" -> caller_id(req, s)
      [] req.path = "/email-id" -> email_id(req, s)
      [] req.path = "/contact-id" -> contact_id(req, s)
      [] req.path = "/address-id" -> address_id(req, s)
      [] req.path = "/address-autocomplete" -> address_autocomplete(req, s)
      [] req.path = "/person-search" -> person_search(req, s)
      [] req.path = "/reverse-phone-search" -> reverse_phone_search(req, s)
      [] req.path = "/id-verification" -> id_verification(req, s)
      [] req.path = "/census-search" -> census_search(req, s)
      [] req.path = "/divorce-search" -> divorce_search(req, s)
      [] req.path = "/linkedin-id" -> linkedin_id(req, s)
      [] req.path = "/property-search-v2" -> property_search_v2(req, s)
      [] req.path = "/business-search" -> business_search(req, s)
      [] req.path = "/business-search-v2" -> business_search_v2(req, s)
      [] req.path = "/domain-search" -> domain_search(req, s)
      [] req.path = "/workplace-search" -> workplace_search(req, s)
      [] req.path = "/business-id" -> business_id(req, s)
      [] req.path = "/contact-enrichment-plus" -> contact_enrichment_plus(req, s)
      [] req.path = "/contact-id-plus" -> contact_id_plus(req, s)
      [] req.path = "/caller-id-plus" -> caller_id_plus(req, s)
      [] req.path = "/email-id-plus" -> email_id_plus(req, s)
      [] req.path = "/address-id-plus" -> address_id_plus(req, s)
      [] req.path = "/criminal-search-v2" -> criminal_search_v2(req, s)
      [] req.path = "/debt-v2" -> debt_v2(req, s)
      [] req.path = "/eviction-search" -> eviction_search(req, s)
      [] req.path = "/marriage-search" -> marriage_search(req, s)
      [] req.path = "/ofac-search" -> ofac_search(req, s)
      [] req.path = "/pre-foreclosure-search-v2" -> pre_foreclosure_search_v2(req, s)
      [] req.path = "/professional-license-search" -> professional_license_search(req, s)
      [] req.path = "/vehicle-ownership-search" -> vehicle_ownership_search(req, s)
      [] req.path = "/eleadverify" -> eleadverify(req, s)
      [] req.path = "/data-alerts/add-subscription" -> data_alerts_add_subscription(req, s)
      [] req.path = "/data-alerts/remove-subscription" -> data_alerts_remove_subscription(req, s)
      [] req.path = "/data-alerts/get-subscription" -> data_alerts_get_subscription(req, s)
      [] req.path = "/data-alerts/count-alert" -> data_alerts_count_alert(req, s)
      [] req.path = "/data-alerts/get-alert" -> data_alerts_get_alert(req, s)

-----------------------------------------------------------------------------
(* The outbound POST and the classification of its outcome *)

\* httpx exception classes that client.post raises on a network-level failure,
\* all subclasses of httpx.RequestError; the first four are also subclasses
\* of httpx.TimeoutException.
TimeoutClasses == {"ConnectTimeout", "ReadTimeout", "WriteTimeout", "PoolTimeout"}
RequestErrorClasses == TimeoutClasses \cup {"ConnectError", "ReadError"}

\* response.raise_for_status() raises HTTPStatusError unless the status is 2xx
is_success(status_code) == 200 <= status_code /\ status_code <= 299

\* the JSON object an upstream builds from the credential headers of the
\* call it received (line 132 sends them in headers=headers)
EchoDocument(name, password) ==
    [k \in {"galaxy-ap-name", "galaxy-ap-password"} |->
        IF k = "galaxy-ap-name" THEN name ELSE password]

\* the text of that object
dumps(d) ==
    "{\"galaxy-ap-name\": \"" \o d["galaxy-ap-name"]
        \o "\", \"galaxy-ap-password\": \"" \o d["galaxy-ap-password"] \o "\"}"

\* the account names and secrets of config.py lines 12-13 and of the
\* galaxy-ap-name / galaxy-ap-password headers
CredentialStrings == {"cfgName", "cfgSecret", "hdrName", "hdrSecret"}

EchoDocuments == {EchoDocument(n, p) : n, p \in CredentialStrings}

\* response.json(): the parsed body, or a JSONDecodeError
json(text) ==
    CASE text = "{\"ok\": true}" -> Return([ok |-> TRUE])
      [] text = "{\"error\": \"bad field\"}" -> Return([error |-> "bad field"])
      [] \E d \in EchoDocuments : dumps(d) = text ->
            Return(CHOOSE d \in EchoDocuments : dumps(d) = text)
      [] OTHER -> Raise([kind |-> "JSONDecodeError"])

\* variant: the timeout message drops the description of the cause
except_RequestError_no_cause(exc) ==
    IF exc.class \in TimeoutClasses
    THEN APIConnectionError(<<"Request to EnformionGO API timed out">>)
    ELSE APIConnectionError(<<"Error communicating with EnformionGO API: ", exc.str>>)

\* variant: the parsed body is wrapped before it is returned
returned_wrapped(value) ==
    [kind |-> "return", status_code |-> 200, value |-> [data |-> value]]

\* line 143: the endpoint returns the value of call_enformion_api; the route
\* decorators declare no status code, so the answer is sent with status 200
returned(value) == [kind |-> "return", status_code |-> 200, value |-> value]

\* lines 134-137: the except clauses are tried in order
except_RequestError(exc) ==
    IF exc.class \in TimeoutClasses
    THEN APIConnectionError(<<"Request to EnformionGO API timed out: ", exc.str>>)
    ELSE APIConnectionError(<<"Error communicating with EnformionGO API: ", exc.str>>)

\* variant: only the status is logged
logger_error_status_only(resp) ==
    [level |-> "ERROR",
     msg |-> <<"Invalid request to EnformionGO API. Status: ", ToString(resp.status_code)>>]

\* lines 139-141: logger.error(f"...")
logger_error(resp) ==
    [level |-> "ERROR",
     msg |-> <<"Invalid request to EnformionGO API. Status: ", ToString(resp.status_code),
               ", Response: ", resp.text>>]

\* variant: the upstream body is passed on to the caller
except_HTTPStatusError_with_body(resp) ==
    InvalidRequestError(<<"The request to the upstream service failed: ", resp.text>>)

\* line 142
except_HTTPStatusError(resp) ==
    InvalidRequestError(<<"The request to the upstream service failed.">>)

\* lines 169-172: the exception classes for which the application registers
\* a handler that answers with the JSON error envelope
exception_handlers == {"HTTPException", "APIConnectionError", "InvalidRequestError"}

\* line 147: FastAPI() itself installs a handler for request validation errors
default_exception_handlers == {"RequestValidationError"}

-----------------------------------------------------------------------------
(* Actions *)

NoRequest == [path |-> "none"]
NoResponse == [kind |-> "none"]
NoResult == [kind |-> "none"]

\* variant: the inbound headers are kept in one place shared by all requests,
\* so a request that starts while another one is suspended uses the headers
\* of that one
handle_request_shared(r) ==
    /\ pc[r] = "received"
    /\ LET others == {q \in Requests \ {r} : pc[q] = "awaiting"}
           req == IF others = {} THEN inbound[r]
                  ELSE [inbound[r] EXCEPT !.headers = inbound[CHOOSE q \in others : TRUE].headers]
           out == Route(req, get_settings)
       IN  /\ pc' = [pc EXCEPT ![r] = IF out.op = "post" THEN "awaiting" ELSE "done"]
           /\ posts' = [posts EXCEPT ![r] = IF out.op = "post" THEN Append(@, out.call) ELSE @]
           /\ result' = [result EXCEPT ![r] = IF out.op = "raise" THEN out.exc ELSE @]
    /\ UNCHANGED <<settings, inbound, response, log>>

\* The request r is routed to its endpoint, which runs up to the first point
\* where it either raises or suspends at the outbound POST.
handle_request(r) ==
    /\ pc[r] = "received"
    /\ LET out == Route(inbound[r], get_settings)
       IN  /\ pc' = [pc EXCEPT ![r] = IF out.op = "post" THEN "awaiting" ELSE "done"]
           /\ posts' = [posts EXCEPT ![r] = IF out.op = "post" THEN Append(@, out.call) ELSE @]
           /\ result' = [result EXCEPT ![r] = IF out.op = "raise" THEN out.exc ELSE @]
    /\ UNCHANGED <<settings, inbound, response, log>>

\* Upstream answers with a 2xx status: line 143 returns response.json()
post_returns(r, resp) ==
    /\ pc[r] = "awaiting"
    /\ is_success(resp.status_code)
    /\ response' = [response EXCEPT ![r] = resp]
    /\ LET parsed == json(resp.text)
       IN  result' = [result EXCEPT ![r] =
                        IF parsed.op = "raise" THEN parsed.exc
                        ELSE returned(parsed.value)]
    /\ pc' = [pc EXCEPT ![r] = "done"]
    /\ UNCHANGED <<settings, inbound, posts, log>>

\* variant: after an upstream rejection the configured credentials are dropped
post_status_error_drops_credentials(r, resp) ==
    /\ pc[r] = "awaiting"
    /\ ~is_success(resp.status_code)
    /\ response' = [response EXCEPT ![r] = resp]
    /\ log' = Append(log, logger_error(resp))
    /\ result' = [result EXCEPT ![r] = except_HTTPStatusError(resp)]
    /\ pc' = [pc EXCEPT ![r] = "done"]
    /\ settings' = [settings EXCEPT !.GALAXY_AP_NAME = None, !.GALAXY_AP_PASSWORD = None]
    /\ UNCHANGED <<inbound, posts>>

\* Upstream answers with another status: raise_for_status raises
\* HTTPStatusError, caught at line 138
post_status_error(r, resp) ==
    /\ pc[r] = "awaiting"
    /\ ~is_success(resp.status_code)
    /\ response' = [response EXCEPT ![r] = resp]
    /\ log' = Append(log, logger_error(resp))
    /\ result' = [result EXCEPT ![r] = except_HTTPStatusError(resp)]
    /\ pc' = [pc EXCEPT ![r] = "done"]
    /\ UNCHANGED <<settings, inbound, posts>>

\* variant: after a timeout the request is started over, with no limit
post_raises_restart(r, exc) ==
    /\ pc[r] = "awaiting"
    /\ IF exc.class \in TimeoutClasses
       THEN /\ posts' = [posts EXCEPT ![r] = <<>>]
            /\ pc' = [pc EXCEPT ![r] = "received"]
            /\ UNCHANGED <<settings, inbound, response, result, log>>
       ELSE /\ response' = [response EXCEPT ![r] = exc]
            /\ result' = [result EXCEPT ![r] = except_RequestError(exc)]
            /\ pc' = [pc EXCEPT ![r] = "done"]
            /\ UNCHANGED <<settings, inbound, posts, log>>

\* variant: a timed out POST is sent once more before giving up
post_raises_retry(r, exc) ==
    /\ pc[r] = "awaiting"
    /\ IF exc.class \in TimeoutClasses /\ Len(posts[r]) < 2
       THEN /\ posts' = [posts EXCEPT ![r] = Append(@, @[1])]
            /\ UNCHANGED <<settings, inbound, pc, response, result, log>>
       ELSE /\ response' = [response EXCEPT ![r] = exc]
            /\ result' = [result EXCEPT ![r] = except_RequestError(exc)]
            /\ pc' = [pc EXCEPT ![r] = "done"]
            /\ UNCHANGED <<settings, inbound, posts, log>>

\* client.post raises: no response was received
post_raises(r, exc) ==
    /\ pc[r] = "awaiting"
    /\ response' = [response EXCEPT ![r] = exc]
    /\ result' = [result EXCEPT ![r] = except_RequestError(exc)]
    /\ pc' = [pc EXCEPT ![r] = "done"]
    /\ UNCHANGED <<settings, inbound, posts, log>>

-----------------------------------------------------------------------------
(* Inputs *)

\* largest list of phones or emails in a request
MaxListLen == 2

HeaderValues(s) == {None, Str(""), Str(s)}

InboundHeaders ==
    [galaxy_ap_name : HeaderValues("hdrName"),
     galaxy_ap_password : HeaderValues("hdrSecret"),
     galaxy_client_session_id : HeaderValues("session-1"),
     galaxy_client_type : HeaderValues("web"),
     galaxy_search_type : HeaderValues("Teaser")]

AllSettings ==
    {Settings(n, p) : n \in {None, Str(""), Str("cfgName")},
                      p \in {None, SecretStr(""), SecretStr("cfgSecret")}}

StrValues == {None, Str(""), Str("x")}
ListValues == {None} \cup {List([i \in 1..n |-> "x"]) : n \in 0..MaxListLen}

ContactEnrichmentRequest ==
    [first_name : StrValues, middle_name : StrValues, last_name : StrValues,
     phone : StrValues, address : StrValues, email : StrValues]

IdVerificationRequest ==
    [first_name : StrValues, middle_name : StrValues, last_name : StrValues,
     phones : ListValues, address_line_1 : StrValues, address_line_2 : StrValues,
     emails : ListValues, ssn : StrValues]

UpstreamResponses ==
    [kind : {"response"},
     status_code : {199, 200, 299, 300, 422, 500},
     text : {"{\"ok\": true}", "{\"error\": \"bad field\"}", "<html>Bad Gateway</html>"}]

TransportExceptions ==
    {[kind |-> "exception", class |-> "ConnectError", str |-> "[Errno 111] Connection refused"],
     [kind |-> "exception", class |-> "ConnectError", str |-> "[Errno -2] Name or service not known"],
     [kind |-> "exception", class |-> "ReadTimeout", str |-> "The read operation timed out"],
     [kind |-> "exception", class |-> "ConnectTimeout", str |-> ""]}

Next ==
    \E r \in Requests :
        \/ handle_request(r)
        \/ \E resp \in UpstreamResponses : post_returns(r, resp)
        \/ \E resp \in UpstreamResponses : post_status_error(r, resp)
        \/ \E exc \in TransportExceptions : post_raises(r, exc)

\* the answers of an upstream that puts the credential headers it received
\* for r into its response body, with a 2xx or a non-2xx status
EchoResponses(r) ==
    {[kind |-> "response", status_code |-> st,
      text |-> dumps(EchoDocument(posts[r][i].headers["galaxy-ap-name"].v,
                                  posts[r][i].headers["galaxy-ap-password"].v))] :
        st \in {200, 401}, i \in DOMAIN posts[r]}

\* the same steps, with the echoing upstream among the upstream behaviours
NextEcho ==
    \E r \in Requests :
        \/ handle_request(r)
        \/ \E resp \in UpstreamResponses \cup EchoResponses(r) : post_returns(r, resp)
        \/ \E resp \in UpstreamResponses \cup EchoResponses(r) : post_status_error(r, resp)
        \/ \E exc \in TransportExceptions : post_raises(r, exc)

\* the requests have arrived and none is handled yet
Arrived ==
    /\ pc = [r \in Requests |-> IF inbound[r] = NoRequest THEN "idle" ELSE "received"]
    /\ posts = [r \in Requests |-> <<>>]
    /\ response = [r \in Requests |-> NoResponse]
    /\ result = [r \in Requests |-> NoResult]
    /\ log = <<>>

-----------------------------------------------------------------------------
(* Specification: one caller, any endpoint, any combination of inbound       *)
(* headers and configured defaults, representative bodies                    *)

Paths ==
    {"/contact-enrichment",
     "/caller-id",
     "/email-id",
     "/contact-id",
     "/address-id",
     "/address-autocomplete",
     "/person-search",
     "/reverse-phone-search",
     "/id-verification",
     "/census-search",
     "/divorce-search",
     "/linkedin-id",
     "/property-search-v2",
     "/business-search",
     "/business-search-v2",
     "/domain-search",
     "/workplace-search",
     "/business-id",
     "/contact-enrichment-plus",
     "/contact-id-plus",
     "/caller-id-plus",
     "/email-id-plus",
     "/address-id-plus",
     "/criminal-search-v2",
     "/debt-v2",
     "/eviction-search",
     "/marriage-search",
     "/ofac-search",
     "/pre-foreclosure-search-v2",
     "/professional-license-search",
     "/vehicle-ownership-search",
     "/eleadverify",
     "/data-alerts/add-subscription",
     "/data-alerts/remove-subscription",
     "/data-alerts/get-subscription",
     "/data-alerts/count-alert",
     "/data-alerts/get-alert"}

UnvalidatedPaths ==
    {"/caller-id",
     "/email-id",
     "/contact-id",
     "/address-id",
     "/address-autocomplete",
     "/person-search",
     "/reverse-phone-search",
     "/census-search",
     "/divorce-search",
     "/linkedin-id",
     "/property-search-v2",
     "/business-search",
     "/business-search-v2",
     "/domain-search",
     "/workplace-search",
     "/business-id",
     "/contact-enrichment-plus",
     "/contact-id-plus",
     "/caller-id-plus",
     "/email-id-plus",
     "/address-id-plus",
     "/criminal-search-v2",
     "/debt-v2",
     "/eviction-search",
     "/marriage-search",
     "/ofac-search",
     "/pre-foreclosure-search-v2",
     "/professional-license-search",
     "/vehicle-ownership-search",
     "/eleadverify",
     "/data-alerts/add-subscription",
     "/data-alerts/remove-subscription",
     "/data-alerts/get-subscription",
     "/data-alerts/count-alert",
     "/data-alerts/get-alert"}

\* the endpoints whose body is declared as payload: dict[str, Any]
OpenPaths ==
    {"/contact-enrichment-plus",
     "/contact-id-plus",
     "/caller-id-plus",
     "/email-id-plus",
     "/address-id-plus",
     "/criminal-search-v2",
     "/debt-v2",
     "/eviction-search",
     "/marriage-search",
     "/ofac-search",
     "/pre-foreclosure-search-v2",
     "/professional-license-search",
     "/vehicle-ownership-search",
     "/eleadverify",
     "/data-alerts/add-subscription",
     "/data-alerts/remove-subscription",
     "/data-alerts/get-subscription",
     "/data-alerts/count-alert",
     "/data-alerts/get-alert"}

\* the endpoints whose body is declared with a request model
SchemaPaths == Paths \ OpenPaths

CEBody(first, middle, last, phone, address, email) ==
    [first_name |-> first, middle_name |-> middle, last_name |-> last,
     phone |-> phone, address |-> address, email |-> email]

IDVBody(first, phones, line1, line2, emails, ssn) ==
    [first_name |-> first, middle_name |-> None, last_name |-> None,
     phones |-> phones, address_line_1 |-> line1, address_line_2 |-> line2,
     emails |-> emails, ssn |-> ssn]

ContactEnrichmentSamples ==
    {CEBody(None, None, None, None, None, None),
     CEBody(Str("x"), None, None, None, None, None),
     CEBody(Str("x"), Str("x"), Str("x"), None, None, None),
     CEBody(Str("x"), None, None, Str("x"), None, None),
     CEBody(None, None, None, Str("x"), Str("x"), Str("x")),
     CEBody(None, None, Str(""), Str(""), None, Str("x"))}

IdVerificationSamples ==
    {IDVBody(None, None, None, None, None, Str("x")),
     IDVBody(None, List(<<"x">>), None, None, None, Str("x")),
     IDVBody(Str("x"), None, None, None, List(<<"x">>), None),
     IDVBody(None, List(<<>>), None, None, None, Str("x")),
     IDVBody(None, None, Str("x"), Str("x"), None, None),
     IDVBody(Str("x"), List(<<>>), None, None, List(<<"x">>), Str(""))}

\* a body for the endpoints that forward without validation
OtherSamples ==
    {[first_name |-> Str("x"), last_name |-> None, phone |-> Str("")]}

InboundRequests ==
    {[path |-> "/contact-enrichment", headers |-> h, body |-> b] :
        h \in InboundHeaders, b \in ContactEnrichmentSamples}
    \cup {[path |-> "/id-verification", headers |-> h, body |-> b] :
        h \in InboundHeaders, b \in IdVerificationSamples}
    \cup {[path |-> p, headers |-> h, body |-> b] :
        p \in UnvalidatedPaths, h \in InboundHeaders, b \in OtherSamples}

Init ==
    /\ settings \in AllSettings
    /\ \E q \in InboundRequests :
           inbound = [r \in Requests |-> IF r = "r1" THEN q ELSE NoRequest]
    /\ Arrived

Spec == Init /\ [][Next]_vars

-----------------------------------------------------------------------------
(* Specification of the validation gate: one caller on /contact-enrichment   *)
(* or /id-verification, every body over the field values, with and without   *)
(* configured credentials                                                    *)

NoHeaders ==
    [galaxy_ap_name |-> None, galaxy_ap_password |-> None,
     galaxy_client_session_id |-> None, galaxy_client_type |-> None,
     galaxy_search_type |-> None]

GateRequests ==
    {[path |-> "/contact-enrichment", headers |-> NoHeaders, body |-> b] :
        b \in ContactEnrichmentRequest}
    \cup {[path |-> "/id-verification", headers |-> NoHeaders, body |-> b] :
        b \in IdVerificationRequest}

GateSettings == {Settings(None, None), Settings(Str("cfgName"), SecretStr("cfgSecret"))}

InitGate ==
    /\ settings \in GateSettings
    /\ \E q \in GateRequests :
           inbound = [r \in Requests |-> IF r = "r1" THEN q ELSE NoRequest]
    /\ Arrived

SpecGate == InitGate /\ [][Next]_vars

-----------------------------------------------------------------------------
(* Specification of two callers sending the same request concurrently        *)

PairHeaders ==
    [galaxy_ap_name : {None, Str("hdrName")},
     galaxy_ap_password : {None, Str("hdrSecret")},
     galaxy_client_session_id : {None, Str("session-1")},
     galaxy_client_type : {None, Str("web")},
     galaxy_search_type : {None, Str("Teaser")}]

PairRequests ==
    {[path |-> "/contact-enrichment", headers |-> h,
      body |-> CEBody(Str("x"), None, None, Str("x"), None, None)] : h \in PairHeaders}
    \cup {[path |-> p, headers |-> h, body |-> b] :
        p \in {"/caller-id", "/contact-enrichment-plus"}, h \in PairHeaders,
        b \in OtherSamples}

InitPair ==
    /\ settings \in GateSettings
    /\ \E q \in PairRequests : inbound = [r \in Requests |-> q]
    /\ Arrived

SpecPair == InitPair /\ [][Next]_vars

-----------------------------------------------------------------------------
(* Specification of the search type: one caller, any endpoint, a body that   *)
(* passes validation, any galaxy-search-type header                          *)

\* the search type each endpoint sends when the caller names none
DefaultSearchType(path) ==
    CASE path = "/contact-enrichment" -> "DevAPIContactEnrich"
      [] path = "/caller-id" -> "DevAPICallerID"
      [] path = "/email-id" -> "DevAPIEmailID"
      [] path = "/contact-id" -> "DevAPIContactID"
      [] path = "/address-id" -> "DevAPIAddressID"
      [] path = "/address-autocomplete" -> "AddressSearch"
      [] path = "/person-search" -> "Person"
      [] path = "/reverse-phone-search" -> "ReversePhoneSearch"
      [] path = "/id-verification" -> "DevAPIIDVerification"
      [] path = "/census-search" -> "Census"
      [] path = "/divorce-search" -> "Divorce"
      [] path = "/linkedin-id" -> "LinkedInID"
      [] path = "/property-search-v2" -> "PropertyV2Search"
      [] path = "/business-search" -> "BusinessV2Search"
      [] path = "/business-search-v2" -> "BusinessV2Search"
      [] path = "/domain-search" -> "DomainSearch"
      [] path = "/workplace-search" -> "WorkplaceSearch"
      [] path = "/business-id" -> "BusinessID"
      [] path = "/contact-enrichment-plus" -> "ContactEnrichPlus"
      [] path = "/contact-id-plus" -> "ContactIdPlus"
      [] path = "/caller-id-plus" -> "PhoneEnrichPlus"
      [] path = "/email-id-plus" -> "EmailEnrichPlus"
      [] path = "/address-id-plus" -> "AddressIdPlus"
      [] path = "/criminal-search-v2" -> "CriminalSearchV2"
      [] path = "/debt-v2" -> "DebtSearchV2"
      [] path = "/eviction-search" -> "EvictionSearch"
      [] path = "/marriage-search" -> "MarriageSearch"
      [] path = "/ofac-search" -> "OfacSearch"
      [] path = "/pre-foreclosure-search-v2" -> "ForeclosureV2Search"
      [] path = "/professional-license-search" -> "ProLicense"
      [] path = "/vehicle-ownership-search" -> "VehicleRegistrationSearch"
      [] path = "/eleadverify" -> "eLeadVerify"
      [] path = "/data-alerts/add-subscription" -> "DataAlertsAddSubscription"
      [] path = "/data-alerts/remove-subscription" -> "DataAlertsRemoveSubscription"
      [] path = "/data-alerts/get-subscription" -> "DataAlertsGetSubscription"
      [] path = "/data-alerts/count-alert" -> "DataAlertsCountAlert"
      [] path = "/data-alerts/get-alert" -> "DataAlertsGetAlert"

SearchTypeHeaders ==
    {[NoHeaders EXCEPT !.galaxy_search_type = v] :
        v \in {None, Str(""), Str("Teaser"), Str("Custom")}}

SearchTypeRequests ==
    {[path |-> "/contact-enrichment", headers |-> h,
      body |-> CEBody(Str("x"), None, None, Str("x"), None, None)] : h \in SearchTypeHeaders}
    \cup {[path |-> "/id-verification", headers |-> h,
      body |-> IDVBody(Str("x"), None, None, None, List(<<"x">>), None)] : h \in SearchTypeHeaders}
    \cup {[path |-> p, headers |-> h, body |-> b] :
        p \in UnvalidatedPaths, h \in SearchTypeHeaders, b \in OtherSamples}

InitSearchType ==
    /\ settings \in GateSettings
    /\ \E q \in SearchTypeRequests :
           inbound = [r \in Requests |-> IF r = "r1" THEN q ELSE NoRequest]
    /\ Arrived

SpecSearchType == InitSearchType /\ [][Next]_vars

-----------------------------------------------------------------------------
(* Specification of the routing: two callers, each on any endpoint, each     *)
(* with its own credentials in the headers and a body that passes validation *)

OwnCredentials ==
    [NoHeaders EXCEPT !.galaxy_ap_name = Str("hdrName"),
                      !.galaxy_ap_password = Str("hdrSecret")]

RoutedRequests ==
    {[path |-> "/contact-enrichment", headers |-> OwnCredentials,
      body |-> CEBody(Str("x"), None, None, Str("x"), None, None)],
     [path |-> "/id-verification", headers |-> OwnCredentials,
      body |-> IDVBody(Str("x"), None, None, None, List(<<"x">>), None)]}
    \cup {[path |-> p, headers |-> OwnCredentials, body |-> b] :
        p \in UnvalidatedPaths, b \in OtherSamples}

InitRoutes ==
    /\ settings = Settings(None, None)
    /\ \E q1 \in RoutedRequests : \E q2 \in RoutedRequests :
           inbound = [r \in Requests |-> IF r = "r1" THEN q1 ELSE q2]
    /\ Arrived

SpecRoutes == InitRoutes /\ [][Next]_vars

-----------------------------------------------------------------------------
(* Specification of two callers handled concurrently, each sending values    *)
(* of its own                                                                *)

\* all five headers, with values that name the caller
OwnHeaders(r) ==
    [galaxy_ap_name |-> Str("name-" \o r),
     galaxy_ap_password |-> Str("secret-" \o r),
     galaxy_client_session_id |-> Str("session-" \o r),
     galaxy_client_type |-> Str("type-" \o r),
     galaxy_search_type |-> Str("search-" \o r)]

ConcurrentHeaders(r) ==
    {NoHeaders,
     OwnHeaders(r),
     [NoHeaders EXCEPT !.galaxy_ap_name = Str("name-" \o r),
                       !.galaxy_ap_password = Str("secret-" \o r)]}

ConcurrentRequests(r) ==
    {[path |-> "/contact-enrichment", headers |-> h, body |-> b] :
        h \in ConcurrentHeaders(r),
        b \in {CEBody(Str("first-" \o r), None, None, Str("phone-" \o r), None, None),
               CEBody(Str("first-" \o r), None, None, None, None, None)}}
    \cup {[path |-> p, headers |-> h,
           body |-> [first_name |-> Str("first-" \o r), last_name |-> None, phone |-> Str("")]] :
        p \in {"/caller-id", "/contact-enrichment-plus"}, h \in ConcurrentHeaders(r)}

InitConcurrent ==
    /\ settings \in GateSettings
    /\ inbound \in [Requests -> UNION {ConcurrentRequests(r) : r \in Requests}]
    /\ \A r \in Requests : inbound[r] \in ConcurrentRequests(r)
    /\ Arrived

SpecConcurrent == InitConcurrent /\ [][Next]_vars

-----------------------------------------------------------------------------
(* Specification of an upstream that may echo the request headers: one       *)
(* caller, with or without credentials of its own, with or without           *)
(* configured ones                                                           *)

EchoRequests ==
    {[path |-> "/contact-enrichment", headers |-> h,
      body |-> CEBody(Str("x"), None, None, Str("x"), None, None)] : h \in PairHeaders}
    \cup {[path |-> p, headers |-> h, body |-> b] :
        p \in {"/caller-id", "/contact-enrichment-plus"}, h \in PairHeaders,
        b \in OtherSamples}

InitEcho ==
    /\ settings \in GateSettings
    /\ \E q \in EchoRequests :
           inbound = [r \in Requests |-> IF r = "r1" THEN q ELSE NoRequest]
    /\ Arrived

SpecEcho == InitEcho /\ [][NextEcho]_vars

-----------------------------------------------------------------------------
(* Specification of progress: two callers handled concurrently; the server   *)
(* runs every request it received, and client.post, created with             *)
(* timeout=15.0 at line 130, ends for every call with a response, a network  *)
(* failure or a timeout                                                      *)

\* the await of line 132 ends for r
client_post_completes(r) ==
    \/ \E resp \in UpstreamResponses : post_returns(r, resp)
    \/ \E resp \in UpstreamResponses : post_status_error(r, resp)
    \/ \E exc \in TransportExceptions : post_raises(r, exc)

Fairness ==
    \A r \in Requests :
        /\ WF_vars(handle_request(r))
        /\ WF_vars(client_post_completes(r))

SpecLive == InitConcurrent /\ [][Next]_vars /\ Fairness

-----------------------------------------------------------------------------
(* Properties *)

\* r has been routed to its endpoint
Started(r) == pc[r] \in {"awaiting", "done"}

\* the endpoint of r got as far as calling call_enformion_api
Invoked(r) ==
    Started(r) /\ result[r].kind \notin {"HTTPException", "RequestValidationError"}

Absent(x) == x \in {None, Str(""), SecretStr("")}

NameAbsent(r) ==
    Absent(inbound[r].headers.galaxy_ap_name) /\ Absent(settings.GALAXY_AP_NAME)

SecretAbsent(r) ==
    Absent(inbound[r].headers.galaxy_ap_password) /\ Absent(settings.GALAXY_AP_PASSWORD)

\* C1: an invocation of call_enformion_api for which, after falling back from
\* the header to the configured default, the account name or the account
\* secret is absent ends with APIConnectionError and has issued no POST.
C1_ConfigurationError ==
    \A r \in Requests :
        (Invoked(r) /\ (NameAbsent(r) \/ SecretAbsent(r)))
            => /\ pc[r] = "done"
               /\ result[r].kind = "APIConnectionError"
               /\ posts[r] = <<>>
               /\ response[r] = NoResponse

\* the name resolves (from the header) and the secret is absent from both sources
C1_Witness ==
    \E r \in Requests :
        /\ Invoked(r)
        /\ ~Absent(inbound[r].headers.galaxy_ap_name)
        /\ SecretAbsent(r)
        /\ result[r].kind = "APIConnectionError"
        /\ posts[r] = <<>>

\* the value of the configured secret
ConfiguredSecret == Str(settings.GALAXY_AP_PASSWORD.v)

\* C2 as stated: in every outbound call each credential header equals the
\* caller's header whenever the caller supplied one (any value other than
\* None), and the configured default otherwise.
C2_Original ==
    \A r \in Requests : \A i \in DOMAIN posts[r] :
        LET h == posts[r][i].headers
            in == inbound[r].headers
        IN  /\ h["galaxy-ap-name"] =
                 (IF in.galaxy_ap_name # None THEN in.galaxy_ap_name
                  ELSE settings.GALAXY_AP_NAME)
            /\ h["galaxy-ap-password"] =
                 (IF in.galaxy_ap_password # None THEN in.galaxy_ap_password
                  ELSE ConfiguredSecret)

\* C2 (amended): in every outbound call each credential header equals the
\* caller's header whenever the caller supplied a non-empty one, and the
\* configured default otherwise, for the name and the secret independently.
C2_OverrideWins ==
    \A r \in Requests : \A i \in DOMAIN posts[r] :
        LET h == posts[r][i].headers
            in == inbound[r].headers
        IN  /\ h["galaxy-ap-name"] =
                 (IF in.galaxy_ap_name \notin {None, Str("")} THEN in.galaxy_ap_name
                  ELSE settings.GALAXY_AP_NAME)
            /\ h["galaxy-ap-password"] =
                 (IF in.galaxy_ap_password \notin {None, Str("")} THEN in.galaxy_ap_password
                  ELSE ConfiguredSecret)

\* mixed resolution: the name comes from the header although a default is
\* configured, the secret from the configuration because the header is empty
C2_Witness ==
    \E r \in Requests : \E i \in DOMAIN posts[r] :
        /\ inbound[r].headers.galaxy_ap_name = Str("hdrName")
        /\ settings.GALAXY_AP_NAME = Str("cfgName")
        /\ inbound[r].headers.galaxy_ap_password = Str("")
        /\ posts[r][i].headers["galaxy-ap-name"] = Str("hdrName")
        /\ posts[r][i].headers["galaxy-ap-password"] = Str("cfgSecret")

\* a field that carries a value: not None, not an empty string or list
Populated(x) == x \notin {None, Str(""), List(<<>>)}

\* the criteria groups of a contact-enrichment body that are populated
ContactEnrichmentCriteria(b) ==
    {g \in {"name", "phone", "address", "email"} :
        CASE g = "name" -> \E f \in {"first_name", "middle_name", "last_name"} : Populated(b[f])
          [] g = "phone" -> Populated(b.phone)
          [] g = "address" -> Populated(b.address)
          [] g = "email" -> Populated(b.email)}

\* the criteria groups of an identity-verification body that are populated
IdVerificationCriteria(b) ==
    {g \in {"name", "phones", "address", "emails", "ssn"} :
        CASE g = "name" -> \E f \in {"first_name", "middle_name", "last_name"} : Populated(b[f])
          [] g = "phones" -> Populated(b.phones)
          [] g = "address" -> \E f \in {"address_line_1", "address_line_2"} : Populated(b[f])
          [] g = "emails" -> Populated(b.emails)
          [] g = "ssn" -> Populated(b.ssn)}

\* r was refused by a validation dependency
Rejected(r) == result[r].kind = "HTTPException"

\* C3: a /contact-enrichment request is accepted by
\* validate_contact_enrichment_request if and only if at least two of the
\* groups {name part, phone, address, email} are populated.
C3_ContactEnrichmentRule ==
    \A r \in Requests :
        (Started(r) /\ inbound[r].path = "/contact-enrichment")
            => (~Rejected(r) <=> Cardinality(ContactEnrichmentCriteria(inbound[r].body)) >= 2)

\* all three name parts and nothing else: one criterion, rejected
C3_Witness ==
    \E r \in Requests :
        /\ Started(r) /\ inbound[r].path = "/contact-enrichment"
        /\ inbound[r].body = CEBody(Str("x"), Str("x"), Str("x"), None, None, None)
        /\ Rejected(r)

\* C4: an /id-verification request is accepted by
\* validate_id_verification_request if and only if at least two of the groups
\* {name part, phones, address line 1 or 2, emails, ssn} are populated.
C4_IdVerificationRule ==
    \A r \in Requests :
        (Started(r) /\ inbound[r].path = "/id-verification")
            => (~Rejected(r) <=> Cardinality(IdVerificationCriteria(inbound[r].body)) >= 2)

\* both address lines and two phones: two criteria, accepted
C4_Witness ==
    \E r \in Requests :
        /\ Started(r) /\ inbound[r].path = "/id-verification"
        /\ inbound[r].body = IDVBody(None, List(<<"x", "x">>), Str("x"), Str("x"), None, None)
        /\ ~Rejected(r)

\* the body of r does not meet the minimum-criteria rule of its endpoint
FailsMinimumCriteria(r) ==
    \/ /\ inbound[r].path = "/contact-enrichment"
       /\ Cardinality(ContactEnrichmentCriteria(inbound[r].body)) < 2
    \/ /\ inbound[r].path = "/id-verification"
       /\ Cardinality(IdVerificationCriteria(inbound[r].body)) < 2

\* C5: a request to /contact-enrichment or /id-verification that fails the
\* minimum-criteria rule ends with the validation error of status 400, and
\* no outbound POST is issued and no upstream outcome is received for it.
C5_RejectedNeverForwarded ==
    \A r \in Requests :
        (Started(r) /\ FailsMinimumCriteria(r))
            => /\ pc[r] = "done"
               /\ result[r].kind = "HTTPException"
               /\ result[r].status_code = 400
               /\ posts[r] = <<>>
               /\ response[r] = NoResponse

\* a rejected request although credentials are configured
C5_Witness ==
    \E r \in Requests :
        /\ Started(r) /\ FailsMinimumCriteria(r)
        /\ ~Absent(settings.GALAXY_AP_NAME) /\ ~Absent(settings.GALAXY_AP_PASSWORD)
        /\ result[r].kind = "HTTPException"
        /\ posts[r] = <<>>

\* C6: the outbound headers contain galaxy-client-session-id if and only if
\* the caller supplied a non-empty one, and then with the caller's value; the
\* same holds for galaxy-client-type independently.
C6_OptionalHeaders ==
    \A r \in Requests : \A i \in DOMAIN posts[r] :
        LET h == posts[r][i].headers
            in == inbound[r].headers
        IN  /\ "galaxy-client-session-id" \in DOMAIN h
                 <=> in.galaxy_client_session_id \notin {None, Str("")}
            /\ "galaxy-client-session-id" \in DOMAIN h
                 => h["galaxy-client-session-id"] = in.galaxy_client_session_id
            /\ "galaxy-client-type" \in DOMAIN h
                 <=> in.galaxy_client_type \notin {None, Str("")}
            /\ "galaxy-client-type" \in DOMAIN h
                 => h["galaxy-client-type"] = in.galaxy_client_type

\* an empty session id is left out while the client type is forwarded
C6_Witness ==
    \E r \in Requests : \E i \in DOMAIN posts[r] :
        /\ inbound[r].headers.galaxy_client_session_id = Str("")
        /\ inbound[r].headers.galaxy_client_type = Str("web")
        /\ "galaxy-client-session-id" \notin DOMAIN posts[r][i].headers
        /\ posts[r][i].headers["galaxy-client-type"] = Str("web")

\* C7: every outbound POST carries galaxy-ap-name, galaxy-ap-password,
\* galaxy-search-type and Content-Type: application/json, and the account
\* name and the account secret are non-empty strings.
C7_MandatoryHeaders ==
    \A r \in Requests : \A i \in DOMAIN posts[r] :
        LET h == posts[r][i].headers
        IN  /\ {"galaxy-ap-name", "galaxy-ap-password", "galaxy-search-type", "Content-Type"}
                 \subseteq DOMAIN h
            /\ h["Content-Type"] = Str("application/json")
            /\ h["galaxy-ap-name"].t = "str" /\ h["galaxy-ap-name"].v # ""
            /\ h["galaxy-ap-password"].t = "str" /\ h["galaxy-ap-password"].v # ""

\* an outbound POST of an open-payload endpoint whose caller sent empty
\* credential headers
C7_Witness ==
    \E r \in Requests : \E i \in DOMAIN posts[r] :
        /\ inbound[r].path = "/data-alerts/get-alert"
        /\ inbound[r].headers.galaxy_ap_name = Str("")
        /\ inbound[r].headers.galaxy_ap_password = Str("")
        /\ posts[r][i].headers["galaxy-ap-name"] = Str("cfgName")
        /\ posts[r][i].headers["galaxy-ap-password"] = Str("cfgSecret")

\* upstream answered r with a status outside 200-299
UpstreamRejected(r) ==
    /\ response[r].kind = "response"
    /\ (response[r].status_code < 200 \/ response[r].status_code > 299)

\* C8: whatever non-2xx status and body upstream answers with, two callers
\* that sent the same request receive the same InvalidRequestError, and its
\* message contains neither the upstream body nor the upstream status.
C8_GenericRejection ==
    \A a, b \in Requests :
        (UpstreamRejected(a) /\ UpstreamRejected(b))
            => /\ result[a] = result[b]
               /\ result[a].kind = "InvalidRequestError"
               /\ response[a].text \notin Range(result[a].message)
               /\ ToString(response[a].status_code) \notin Range(result[a].message)

\* two rejections of the same request with different statuses and bodies
C8_Witness ==
    \E a, b \in Requests :
        /\ UpstreamRejected(a) /\ UpstreamRejected(b)
        /\ inbound[a] = inbound[b]
        /\ response[a].status_code = 422 /\ response[b].status_code = 500
        /\ response[a].text # response[b].text
        /\ result[a] = result[b]

\* log records at error severity that carry the status and the body of resp
RejectionRecords(resp) ==
    {i \in DOMAIN log :
        /\ log[i].level = "ERROR"
        /\ ToString(resp.status_code) \in Range(log[i].msg)
        /\ resp.text \in Range(log[i].msg)}

\* C9: an upstream response with a status outside 200-299 ends the request
\* with InvalidRequestError, and exactly one record has been logged, at error
\* severity, containing the upstream status code and the raw upstream body.
C9_RejectionLogged ==
    \A r \in Requests :
        UpstreamRejected(r)
            => /\ pc[r] = "done"
               /\ result[r].kind = "InvalidRequestError"
               /\ Len(log) = 1
               /\ Cardinality(RejectionRecords(response[r])) = 1

\* a redirect answer is classified as a rejection and logged
C9_Witness ==
    \E r \in Requests :
        /\ UpstreamRejected(r)
        /\ response[r].status_code = 300
        /\ result[r].kind = "InvalidRequestError"
        /\ Cardinality(RejectionRecords(response[r])) = 1

\* C10: when client.post fails at the network level the request ends with
\* APIConnectionError and the message carries the description of the cause.
C10_ConnectivityError ==
    \A r \in Requests :
        response[r].kind = "exception"
            => /\ pc[r] = "done"
               /\ result[r].kind = "APIConnectionError"
               /\ response[r].str \in Range(result[r].message)
               /\ posts[r] # <<>>

\* a read timeout reported with its description
C10_Witness ==
    \E r \in Requests :
        /\ response[r].kind = "exception"
        /\ response[r].class = "ReadTimeout"
        /\ result[r].kind = "APIConnectionError"
        /\ "The read operation timed out" \in Range(result[r].message)

\* upstream answered r with a status in 200-299
UpstreamSucceeded(r) ==
    /\ response[r].kind = "response"
    /\ response[r].status_code >= 200 /\ response[r].status_code <= 299

\* the JSON documents among the upstream bodies, with the value each denotes
JsonDocuments ==
    {<<"{\"ok\": true}", [ok |-> TRUE]>>,
     <<"{\"error\": \"bad field\"}", [error |-> "bad field"]>>}

\* C11: when upstream answers 2xx with a JSON body, the caller receives
\* exactly the value that body denotes, with status 200, on every endpoint.
C11_VerbatimJson ==
    \A r \in Requests : \A d \in JsonDocuments :
        (UpstreamSucceeded(r) /\ response[r].text = d[1])
            => /\ pc[r] = "done"
               /\ result[r].kind = "return"
               /\ result[r].status_code = 200
               /\ result[r].value = d[2]

\* an upstream 299 whose JSON body is relayed with status 200
C11_Witness ==
    \E r \in Requests :
        /\ UpstreamSucceeded(r)
        /\ response[r].status_code = 299
        /\ response[r].text = "{\"error\": \"bad field\"}"
        /\ result[r] = [kind |-> "return", status_code |-> 200,
                        value |-> [error |-> "bad field"]]

\* C12: every failing request ends in an exception for which a handler is
\* registered that translates it into the JSON error envelope; no failure
\* leaves call_enformion_api as an exception without such a handler.
C12_AllErrorsEnveloped ==
    \A r \in Requests :
        (pc[r] = "done" /\ result[r].kind # "return")
            => result[r].kind \in exception_handlers \cup default_exception_handlers

\* C13: an invocation of call_enformion_api issues at most one outbound POST,
\* exactly one when both credentials resolve, and still exactly one after
\* the POST has failed or was answered.
C13_NoRetry ==
    \A r \in Requests :
        /\ Len(posts[r]) <= 1
        /\ (Invoked(r) /\ ~NameAbsent(r) /\ ~SecretAbsent(r)) => Len(posts[r]) = 1
        /\ response[r] # NoResponse => (pc[r] = "done" /\ Len(posts[r]) = 1)

\* a request that ended in a timeout after a single POST
C13_Witness ==
    \E r \in Requests :
        /\ pc[r] = "done"
        /\ response[r].kind = "exception" /\ response[r].class \in TimeoutClasses
        /\ result[r].kind = "APIConnectionError"
        /\ Len(posts[r]) = 1

\* C14 as stated: on a schema-backed endpoint every field the caller populated
\* with a non-empty value is in the outbound body with the same value, and no
\* field the caller left absent or empty (None, "" or []) is in it.
C14_Original ==
    \A r \in Requests : \A i \in DOMAIN posts[r] :
        inbound[r].path \in SchemaPaths
            => LET b == inbound[r].body
                   j == posts[r][i].json
               IN  /\ DOMAIN j \subseteq DOMAIN b
                   /\ \A f \in DOMAIN b :
                        IF Populated(b[f]) THEN f \in DOMAIN j /\ j[f] = b[f]
                        ELSE f \notin DOMAIN j

\* C14 (amended): on a schema-backed endpoint every field the caller supplied
\* with a value other than None is in the outbound body with the same value,
\* an empty string or an empty list included, and no field the caller left
\* absent (None) is in it.
C14_NoneStripped ==
    \A r \in Requests : \A i \in DOMAIN posts[r] :
        inbound[r].path \in SchemaPaths
            => LET b == inbound[r].body
                   j == posts[r][i].json
               IN  /\ DOMAIN j \subseteq DOMAIN b
                   /\ \A f \in DOMAIN b :
                        IF b[f] # None THEN f \in DOMAIN j /\ j[f] = b[f]
                        ELSE f \notin DOMAIN j

\* an identity-verification body forwarded with its empty phones list and
\* empty ssn, and without the fields that were None
C14_Witness ==
    \E r \in Requests : \E i \in DOMAIN posts[r] :
        /\ inbound[r].path = "/id-verification"
        /\ inbound[r].body = IDVBody(Str("x"), List(<<>>), None, None, List(<<"x">>), Str(""))
        /\ DOMAIN posts[r][i].json = {"first_name", "phones", "emails", "ssn"}
        /\ posts[r][i].json["phones"] = List(<<>>)
        /\ posts[r][i].json["ssn"] = Str("")

\* C15: on an open-payload endpoint the JSON body sent upstream is the
\* caller's JSON object, with nothing stripped and nothing added.
C15_PayloadUnmodified ==
    \A r \in Requests : \A i \in DOMAIN posts[r] :
        inbound[r].path \in OpenPaths => posts[r][i].json = inbound[r].body

\* a payload forwarded together with its null and its empty field
C15_Witness ==
    \E r \in Requests : \E i \in DOMAIN posts[r] :
        /\ inbound[r].path = "/contact-enrichment-plus"
        /\ inbound[r].body["last_name"] = None
        /\ posts[r][i].json["last_name"] = None
        /\ posts[r][i].json["phone"] = Str("")

\* r passed the validation dependency (if any) and its credentials resolve
Forwardable(r) ==
    Started(r) /\ ~FailsMinimumCriteria(r) /\ ~NameAbsent(r) /\ ~SecretAbsent(r)

\* C16 as stated: on every endpoint, /person-search included, the request is
\* forwarded with the caller's galaxy-search-type whenever the caller
\* supplied one, and with the endpoint's default otherwise.
C16_Original ==
    \A r \in Requests :
        Forwardable(r)
            => /\ Len(posts[r]) = 1
               /\ posts[r][1].headers["galaxy-search-type"] =
                    (IF inbound[r].headers.galaxy_search_type # None
                     THEN inbound[r].headers.galaxy_search_type
                     ELSE Str(DefaultSearchType(inbound[r].path)))

\* C16 (amended): on every endpoint other than /person-search the request is
\* forwarded with the caller's galaxy-search-type when the caller supplied a
\* non-empty one and with the endpoint's default otherwise.  On
\* /person-search an absent header means Person, the values Person and
\* Teaser are forwarded, and any other value is refused with status 422 and
\* nothing is forwarded.
C16_SearchType ==
    \A r \in Requests :
        Forwardable(r)
            => LET st == inbound[r].headers.galaxy_search_type
               IN  IF inbound[r].path = "/person-search"
                      /\ st \notin {None, Str("Person"), Str("Teaser")}
                   THEN /\ posts[r] = <<>>
                        /\ result[r].kind = "RequestValidationError"
                        /\ result[r].status_code = 422
                   ELSE /\ Len(posts[r]) = 1
                        /\ posts[r][1].headers["galaxy-search-type"] =
                             (IF st \notin {None, Str("")} THEN st
                              ELSE Str(DefaultSearchType(inbound[r].path)))

\* a free-form search type is refused on /person-search although the
\* credentials are configured
C16_Witness ==
    \E r \in Requests :
        /\ Forwardable(r)
        /\ inbound[r].path = "/person-search"
        /\ inbound[r].headers.galaxy_search_type = Str("Custom")
        /\ posts[r] = <<>>
        /\ result[r].kind = "RequestValidationError"

\* C17: on every endpoint other than /contact-enrichment and
\* /id-verification a request that the schema layer accepts is never answered
\* with a locally raised HTTPException, and with resolved credentials it
\* leads to exactly one outbound POST.
C17_NoOtherValidation ==
    \A r \in Requests :
        (/\ Started(r)
         /\ inbound[r].path \notin {"/contact-enrichment", "/id-verification"}
         /\ result[r].kind # "RequestValidationError")
            => /\ result[r].kind # "HTTPException"
               /\ (~NameAbsent(r) /\ ~SecretAbsent(r)) => Len(posts[r]) = 1

\* /contact-enrichment-plus forwards a payload with a single populated field
C17_Witness ==
    \E r \in Requests :
        /\ Started(r)
        /\ inbound[r].path = "/contact-enrichment-plus"
        /\ Cardinality({f \in DOMAIN inbound[r].body : Populated(inbound[r].body[f])}) = 1
        /\ Len(posts[r]) = 1

\* C18 as stated: every endpoint forwards to one fixed URL of its own, so two
\* requests are sent to the same URL if and only if they came in on the same
\* path.
C18_Original ==
    \A a, b \in Requests :
        (posts[a] # <<>> /\ posts[b] # <<>>)
            => (inbound[a].path = inbound[b].path <=> posts[a][1].url = posts[b][1].url)

\* the two paths that share a destination
BusinessSearchPaths == {"/business-search", "/business-search-v2"}

\* C18 (amended): every endpoint forwards to one fixed URL; two requests that
\* came in on different paths are sent to different URLs, except that
\* /business-search and /business-search-v2 both forward to
\* BUSINESS_SEARCH_V2_API_URL.
C18_Routing ==
    \A a, b \in Requests :
        (posts[a] # <<>> /\ posts[b] # <<>>)
            => LET pa == inbound[a].path
                   pb == inbound[b].path
               IN  posts[a][1].url = posts[b][1].url
                     <=> (pa = pb \/ {pa, pb} = BusinessSearchPaths)

\* /business-search and /business-search-v2 forwarded to the same URL
C18_Witness ==
    \E a, b \in Requests :
        /\ inbound[a].path = "/business-search"
        /\ inbound[b].path = "/business-search-v2"
        /\ posts[a] # <<>> /\ posts[b] # <<>>
        /\ posts[a][1].url = settings.BUSINESS_SEARCH_V2_API_URL
        /\ posts[b][1].url = settings.BUSINESS_SEARCH_V2_API_URL

\* the strings that r sent in its headers and its body
SentStrings(r) ==
    {inbound[r].headers[k].v : k \in {k \in DOMAIN inbound[r].headers : inbound[r].headers[k] # None}}
    \cup {inbound[r].body[f].v : f \in {f \in DOMAIN inbound[r].body : Populated(inbound[r].body[f])}}

\* the strings in the outbound calls made for r and in the error r ended with
ExposedStrings(r) ==
    UNION {{posts[r][i].headers[k].v : k \in DOMAIN posts[r][i].headers}
           \cup {posts[r][i].json[f].v : f \in DOMAIN posts[r][i].json} : i \in DOMAIN posts[r]}
    \cup (IF result[r].kind \in {"APIConnectionError", "InvalidRequestError"}
          THEN Range(result[r].message)
          ELSE IF result[r].kind = "HTTPException" THEN Range(result[r].detail) ELSE {})

\* C19: under every interleaving of two requests, no value that one request
\* sent (credentials, session id, client type, search type, body fields)
\* appears in the outbound call or in the error of the other; the
\* credentials, session id and search type of each outbound call are the
\* caller's own or the configured ones, and a returned value is the one
\* denoted by the request's own upstream response.
C19_Isolation ==
    \A a \in Requests :
        /\ \A b \in Requests \ {a} : ExposedStrings(a) \cap SentStrings(b) = {}
        /\ result[a].kind = "return"
             => <<response[a].text, result[a].value>> \in JsonDocuments
        /\ \A i \in DOMAIN posts[a] :
             LET h == posts[a][i].headers
                 in == inbound[a].headers
             IN  /\ h["galaxy-ap-name"] \in {in.galaxy_ap_name, settings.GALAXY_AP_NAME}
                 /\ h["galaxy-ap-password"] \in {in.galaxy_ap_password, ConfiguredSecret}
                 /\ "galaxy-client-session-id" \in DOMAIN h
                      => h["galaxy-client-session-id"] = in.galaxy_client_session_id
                 /\ "galaxy-client-type" \in DOMAIN h
                      => h["galaxy-client-type"] = in.galaxy_client_type
                 /\ h["galaxy-search-type"] \in
                      {in.galaxy_search_type, Str(DefaultSearchType(inbound[a].path))}

\* both requests are suspended at their POST at the same time, one sent with
\* the configured credentials, the other with the caller's own
C19_Witness ==
    \E a, b \in Requests :
        /\ pc[a] = "awaiting" /\ pc[b] = "awaiting"
        /\ inbound[a].headers = NoHeaders
        /\ inbound[b].headers = OwnHeaders(b)
        /\ posts[a][1].headers["galaxy-ap-name"] = Str("cfgName")
        /\ posts[b][1].headers["galaxy-ap-name"] = inbound[b].headers.galaxy_ap_name
        /\ "galaxy-client-session-id" \notin DOMAIN posts[a][1].headers

\* what r leads to when it is the first request the process handles
AsFirstRequest(r) == Route(inbound[r], settings)

\* the outbound call of r and, when r ended before any POST, its error are
\* those of r handled as the first request
SameAsFirstRequest(r) ==
    IF AsFirstRequest(r).op = "post"
    THEN posts[r] = <<AsFirstRequest(r).call>>
    ELSE posts[r] = <<>> /\ result[r] = AsFirstRequest(r).exc

\* C20: no step changes the configuration singleton, and whatever the other
\* request did before (success, validation error, configuration error,
\* connectivity error, upstream rejection), a request makes the outbound call
\* and has the outcome it has as the first request.
C20_HistoryIndependence ==
    /\ [][settings' = settings]_vars
    /\ [](\A r \in Requests : Started(r) => SameAsFirstRequest(r))

\* one request was rejected by upstream, the other one was then still served
\* with the configured credentials
C20_Witness ==
    \E a, b \in Requests :
        /\ pc[a] = "done" /\ result[a].kind = "InvalidRequestError"
        /\ pc[b] = "done" /\ result[b].kind = "return"
        /\ inbound[b].headers = NoHeaders
        /\ posts[b][1].headers["galaxy-ap-name"] = Str("cfgName")
        /\ settings.GALAXY_AP_NAME = Str("cfgName")

\* s occurs in text
Contains(text, s) ==
    \E i \in 1..(Len(text) - Len(s) + 1) : SubSeq(text, i, i + Len(s) - 1) = s

\* the account secret sent upstream for r
SecretOf(r) == posts[r][1].headers["galaxy-ap-password"].v

\* some log record mentions s
Logged(s) == \E i \in DOMAIN log : \E part \in Range(log[i].msg) : Contains(part, s)

\* what the caller of r receives mentions s
Echoed(r, s) ==
    CASE result[r].kind = "return" ->
            \E d \in EchoDocuments : d["galaxy-ap-password"] = s /\ result[r].value = d
      [] result[r].kind \in {"APIConnectionError", "InvalidRequestError"} ->
            \E part \in Range(result[r].message) : Contains(part, s)
      [] result[r].kind = "HTTPException" ->
            \E part \in Range(result[r].detail) : Contains(part, s)
      [] OTHER -> FALSE

\* C21: whatever upstream does, an echo of the request headers in its body
\* included, no log record and no answer or error given to the caller
\* contains the account secret that was sent upstream.
C21_SecretNeverExposed ==
    \A r \in Requests :
        posts[r] # <<>> => ~Logged(SecretOf(r)) /\ ~Echoed(r, SecretOf(r))

\* upstream answered r with a 2xx status and a body that is not JSON
Unparsable(r) == UpstreamSucceeded(r) /\ json(response[r].text).op = "raise"

\* C22: when upstream answers 2xx with a body that cannot be parsed as JSON,
\* the request fails with APIConnectionError, the error kind of the network
\* failures; it is neither a success nor an upstream rejection.
C22_ParseFailureIsConnectivityError ==
    \A r \in Requests :
        Unparsable(r) => pc[r] = "done" /\ result[r].kind = "APIConnectionError"

\* the outcomes of an invocation of call_enformion_api that apply to r
Outcomes(r) ==
    {o \in {"JSON result", "configuration error", "connectivity error",
            "upstream rejection", "parse failure"} :
        CASE o = "JSON result" -> result[r].kind = "return"
          [] o = "configuration error" ->
                result[r].kind = "APIConnectionError" /\ posts[r] = <<>>
          [] o = "connectivity error" ->
                result[r].kind = "APIConnectionError" /\ posts[r] # <<>>
          [] o = "upstream rejection" -> result[r].kind = "InvalidRequestError"
          [] o = "parse failure" -> result[r].kind = "JSONDecodeError"}

Terminated(r) == pc[r] = "done" /\ Cardinality(Outcomes(r)) = 1

\* C23: every invocation of call_enformion_api eventually ends in exactly one
\* of JSON result, configuration error, connectivity error, upstream
\* rejection and parse failure, and that outcome never changes afterwards;
\* a call that upstream never answers ends by the timeout.
C23_Terminates ==
    /\ \A r \in Requests : Invoked(r) ~> Terminated(r)
    /\ [][\A r \in Requests : Terminated(r) => result'[r] = result[r] /\ pc'[r] = "done"]_vars

\* a call that got no response ended by the timeout with a connectivity
\* error while the other request was still suspended at its POST
C23_Witness ==
    \E a, b \in Requests :
        /\ pc[a] = "done" /\ Outcomes(a) = {"connectivity error"}
        /\ response[a].kind = "exception" /\ response[a].class \in TimeoutClasses
        /\ pc[b] = "awaiting"

\* r ended with the configuration error of lines 112-116
ConfigurationError(r) ==
    pc[r] = "done" /\ result[r].kind = "APIConnectionError" /\ posts[r] = <<>>

\* C24: on /contact-enrichment and /id-verification a request that fails the
\* minimum-criteria rule and has no resolvable credentials gets the 400
\* validation error; the configuration error is given only to requests that
\* passed the validation.
C24_ValidationFirst ==
    \A r \in Requests :
        (Started(r) /\ inbound[r].path \in {"/contact-enrichment", "/id-verification"})
            => /\ (FailsMinimumCriteria(r) /\ (NameAbsent(r) \/ SecretAbsent(r)))
                    => result[r].kind = "HTTPException" /\ result[r].status_code = 400
               /\ ConfigurationError(r) => ~FailsMinimumCriteria(r)

\* an identity verification with one criterion and no credentials anywhere,
\* answered with the validation error
C24_Witness ==
    \E r \in Requests :
        /\ inbound[r].path = "/id-verification"
        /\ FailsMinimumCriteria(r)
        /\ NameAbsent(r) /\ SecretAbsent(r)
        /\ pc[r] = "done"
        /\ result[r].kind = "HTTPException" /\ result[r].status_code = 400

\* C25: an empty galaxy-ap-name or galaxy-ap-password header falls back to
\* the configured default, and gives the configuration error when there is
\* no default; an empty galaxy-search-type header falls back to the
\* endpoint's default on the endpoints with a free-form search type; no
\* outbound POST carries an empty account name, secret or search type.
C25_EmptyOverride ==
    \A r \in Requests :
        Invoked(r)
            => LET in == inbound[r].headers
               IN  /\ in.galaxy_ap_name = Str("")
                        => /\ Absent(settings.GALAXY_AP_NAME) => ConfigurationError(r)
                           /\ (~Absent(settings.GALAXY_AP_NAME) /\ ~SecretAbsent(r))
                                => /\ Len(posts[r]) = 1
                                   /\ posts[r][1].headers["galaxy-ap-name"] = settings.GALAXY_AP_NAME
                   /\ in.galaxy_ap_password = Str("")
                        => /\ Absent(settings.GALAXY_AP_PASSWORD) => ConfigurationError(r)
                           /\ (~Absent(settings.GALAXY_AP_PASSWORD) /\ ~NameAbsent(r))
                                => /\ Len(posts[r]) = 1
                                   /\ posts[r][1].headers["galaxy-ap-password"] = ConfiguredSecret
                   /\ (in.galaxy_search_type = Str("") /\ inbound[r].path # "/person-search"
                            /\ ~NameAbsent(r) /\ ~SecretAbsent(r))
                        => /\ Len(posts[r]) = 1
                           /\ posts[r][1].headers["galaxy-search-type"] =
                                Str(DefaultSearchType(inbound[r].path))
                   /\ \A i \in DOMAIN posts[r] :
                        \A k \in {"galaxy-ap-name", "galaxy-ap-password", "galaxy-search-type"} :
                            posts[r][i].headers[k].v # ""

\* all three headers sent empty: the POST carries the configured name and
\* secret and the default search type of the endpoint
C25_Witness ==
    \E r \in Requests :
        /\ Len(posts[r]) = 1
        /\ inbound[r].path = "/caller-id"
        /\ inbound[r].headers.galaxy_ap_name = Str("")
        /\ inbound[r].headers.galaxy_ap_password = Str("")
        /\ inbound[r].headers.galaxy_search_type = Str("")
        /\ posts[r][1].headers["galaxy-ap-name"] = Str("cfgName")
        /\ posts[r][1].headers["galaxy-ap-password"] = Str("cfgSecret")
        /\ posts[r][1].headers["galaxy-search-type"] = Str("DevAPICallerID")

\* the field f is in the forwarded body j and populated
Carried(j, f) == f \in DOMAIN j /\ Populated(j[f])

\* the criteria groups populated in a body forwarded to the
\* contact-enrichment destination
ForwardedContactEnrichmentCriteria(j) ==
    {g \in {"name", "phone", "address", "email"} :
        CASE g = "name" -> \E f \in {"first_name", "middle_name", "last_name"} : Carried(j, f)
          [] g = "phone" -> Carried(j, "phone")
          [] g = "address" -> Carried(j, "address")
          [] g = "email" -> Carried(j, "email")}

\* the criteria groups populated in a body forwarded to the
\* identity-verification destination
ForwardedIdVerificationCriteria(j) ==
    {g \in {"name", "phones", "address", "emails", "ssn"} :
        CASE g = "name" -> \E f \in {"first_name", "middle_name", "last_name"} : Carried(j, f)
          [] g = "phones" -> Carried(j, "phones")
          [] g = "address" -> \E f \in {"address_line_1", "address_line_2"} : Carried(j, f)
          [] g = "emails" -> Carried(j, "emails")
          [] g = "ssn" -> Carried(j, "ssn")}

\* C26: every outbound POST to the contact-enrichment destination carries a
\* body with at least two of {name part, phone, address, email} populated,
\* every outbound POST to the identity-verification destination one with at
\* least two of {name part, phones, address line, emails, ssn} populated, and
\* every populated field of the inbound body is in the forwarded body with
\* the same value.
C26_GateEndToEnd ==
    \A r \in Requests : \A i \in DOMAIN posts[r] :
        LET j == posts[r][i].json
            b == inbound[r].body
        IN  /\ posts[r][i].url = settings.CONTACT_ENRICHMENT_API_URL
                => Cardinality(ForwardedContactEnrichmentCriteria(j)) >= 2
            /\ posts[r][i].url = settings.ID_VERIFICATION_API_URL
                => Cardinality(ForwardedIdVerificationCriteria(j)) >= 2
            /\ posts[r][i].url \in {settings.CONTACT_ENRICHMENT_API_URL,
                                    settings.ID_VERIFICATION_API_URL}
                => \A f \in DOMAIN b : Populated(b[f]) => Carried(j, f) /\ j[f] = b[f]

\* an identity verification forwarded with exactly its two criteria, phones
\* and emails, the fields that were None being left out
C26_Witness ==
    \E r \in Requests :
        /\ Len(posts[r]) = 1
        /\ posts[r][1].url = settings.ID_VERIFICATION_API_URL
        /\ ForwardedIdVerificationCriteria(posts[r][1].json) = {"phones", "emails"}
        /\ DOMAIN posts[r][1].json = {"phones", "emails"}

====
